---- MODULE Spec2Model ----
(***************************************************************************)
(* Meeting conflict detection and reminder scheduling of the email         *)
(* assistant: MeetingDetector (meeting_detector.py), NotificationSystem    *)
(* (notification_system.py) and EmailAgent.process_email (agent.py).       *)
(*                                                                         *)
(* Instants are minutes on the UTC time line (every datetime the code     *)
(* compares has been made timezone-aware in UTC first).  A reminder job    *)
(* carries its id "reminder_<meeting id>", its run_date and, as args, the  *)
(* reference to the meeting dict it was scheduled with.                    *)
(* The scheduler is APScheduler's AsyncIOScheduler: while it has not been  *)
(* started add_job only appends to its pending list; once running, add_job *)
(* puts the job in the job store and raises ConflictingIdError when the id *)
(* is already there; remove_job raises JobLookupError for an unknown id.   *)
(***************************************************************************)
EXTENDS Integers, Sequences, FiniteSets, TLC

\* ---------------------------------------------------------------- bounds
MaxTicks == 2        \* the clock advances MaxTicks times
MaxSlots == 4        \* extracted and stored datetimes lie on MaxSlots + 1 grid instants
MaxMeetings == 2     \* rows of the meetings table
MaxPending == 2      \* length of the scheduler's pending list
MaxTasks == 2        \* tasks of schedule_all_reminders not yet run
MaxDraw == 2         \* random.randint draws come from 1 .. MaxDraw (at most RandHi)
MaxEmails == 2       \* email ids the provider knows
MaxBatch == 2        \* emails in one fetch or one sync_emails list

\* ------------------------------------------------------ program constants
WindowMinutes == 30      \* timedelta(minutes=30), the conflict window radius
ReminderMinutes == 15    \* timedelta(minutes=15), the reminder lead
MinutesPerHour == 60     \* timedelta(hours=k)
MaxResults == 3          \* while len(alternative_times) < 3
MaxAttempts == 10        \* and attempts < 10
RandLo == 1              \* random.randint(1, 24)
RandHi == 24

Min(a, b) == IF a < b THEN a ELSE b

\* The grid of instants the extracted and stored datetimes range over, and
\* the instants the clock passes through.
Instants == {i * ReminderMinutes : i \in 0..MaxSlots}
Clock == {i * ReminderMinutes : i \in 0..MaxTicks}
MeetingIds == 1..MaxMeetings
Procs == {1, 2}
Categories == {"Meetings", "Spam"}

None == "None"

VARIABLES
    now,            \* datetime.now(pytz.utc)
    meetings,       \* rows of the meetings table: [id, datetime]
    sched_state,    \* scheduler.state: "stopped" | "running"
    pending_jobs,   \* scheduler._pending_jobs, jobs added before start()
    jobs,           \* the scheduler's job store
    tasks,          \* asyncio tasks created by schedule_all_reminders, FIFO
    fired,          \* send_meeting_reminder calls per meeting id
    call,           \* the last call of the public API (with the meeting id
                    \* cancel_reminder was given) and how it ended
    run,            \* EmailAgent.process_email coroutines, one per Procs
    gen,            \* the loop of generate_alternative_times
    dicts,          \* the meeting dicts handed to schedule_meeting_reminder, by
                    \* meeting id: the title each holds now
    delivered,      \* the title send_meeting_reminder last printed, per meeting
    emails,         \* committed rows of the emails table, by email id
    running,        \* EmailProcessor._running
    last_sync,      \* EmailProcessor._last_sync
    loop,           \* the coroutines of EmailProcessor.start(), one per call
    handled         \* per email id: calls of agent.process_email and of
                    \* provider.add_label made by EmailProcessor

\* The state of the EmailProcessor and of the emails table.
procvars == <<emails, running, last_sync, loop, handled>>

vars == <<now, meetings, sched_state, pending_jobs, jobs, tasks, fired, call, run, gen,
          dicts, delivered, emails, running, last_sync, loop, handled>>

\* ------------------------------------------------------- MeetingDetector

\* check_conflicts: the rows whose datetime is BETWEEN the window ends.
check_conflicts_strict(meeting_time, rows) ==
    LET start_window == meeting_time - WindowMinutes
        end_window == meeting_time + WindowMinutes
    IN {m \in rows : start_window < m.datetime /\ m.datetime < end_window}

check_conflicts_half_open(meeting_time, rows) ==
    LET start_window == meeting_time - WindowMinutes
        end_window == meeting_time + WindowMinutes
    IN {m \in rows : start_window <= m.datetime /\ m.datetime < end_window}

check_conflicts(meeting_time, rows) ==
    LET start_window == meeting_time - WindowMinutes
        end_window == meeting_time + WindowMinutes
    IN {m \in rows : start_window <= m.datetime /\ m.datetime <= end_window}

\* The has_conflict loop of generate_alternative_times.
has_conflict(alternative_time, conflicts) ==
    \E c \in conflicts :
        /\ alternative_time > c.datetime - WindowMinutes
        /\ alternative_time < c.datetime + WindowMinutes

\* The query MeetingModel.datetime == alternative_time.
existing_meetings_unguarded(alternative_time, rows) == {}

existing_meetings(alternative_time, rows) ==
    {m \in rows : m.datetime = alternative_time}

\* One iteration of the while loop with the drawn number of hours.
draw(g, hours, rows) ==
    LET alternative_time == g.meeting_time + hours * MinutesPerHour
        accepted == /\ ~has_conflict(alternative_time, g.conflicts)
                    /\ existing_meetings(alternative_time, rows) = {}
    IN [g EXCEPT !.attempts = @ + 1,
                 !.alternative_times =
                     IF accepted THEN Append(@, alternative_time) ELSE @]

\* The while condition.
looping_inclusive(g) ==
    Len(g.alternative_times) <= MaxResults /\ g.attempts <= MaxAttempts

looping(g) == Len(g.alternative_times) < MaxResults /\ g.attempts < MaxAttempts

Hours == RandLo..Min(MaxDraw, RandHi)

NoGen == [active |-> FALSE, proc |-> 0, meeting_time |-> 0, conflicts |-> {},
          alternative_times |-> <<>>, attempts |-> 0]

\* ---------------------------------------------------- NotificationSystem

\* f"reminder_{meeting['id']}"
job_id(meeting_id) == <<"reminder_", meeting_id>>

JobIds(js) == {j.id : j \in js}
Range(s) == {s[i] : i \in 1..Len(s)}

\* scheduler.add_job(..., id=...) without replace_existing.
add_job_dropped(job, st, pend, js) ==
    [pending |-> pend, jobs |-> js, raised |-> None]

add_job(job, st, pend, js) ==
    IF st = "stopped"
    THEN [pending |-> Append(pend, job), jobs |-> js, raised |-> None]
    ELSE IF job.id \in JobIds(js)
         THEN [pending |-> pend, jobs |-> js, raised |-> "ConflictingIdError"]
         ELSE [pending |-> pend, jobs |-> js \cup {job}, raised |-> None]

\* schedule_meeting_reminder(meeting) at clock t.
arm_at_or_after(meeting, t, st, pend, js) ==
    LET reminder_time == meeting.datetime - ReminderMinutes
    IN IF reminder_time >= t
       THEN add_job([id |-> job_id(meeting.id), run_date |-> reminder_time,
                     args |-> meeting.id], st, pend, js)
       ELSE [pending |-> pend, jobs |-> js, raised |-> None]

arm_without_lead(meeting, t, st, pend, js) ==
    LET reminder_time == meeting.datetime
    IN IF reminder_time > t
       THEN add_job([id |-> job_id(meeting.id), run_date |-> reminder_time,
                     args |-> meeting.id], st, pend, js)
       ELSE [pending |-> pend, jobs |-> js, raised |-> None]

arm_unconditional(meeting, t, st, pend, js) ==
    LET reminder_time == meeting.datetime - ReminderMinutes
    IN add_job([id |-> job_id(meeting.id), run_date |-> reminder_time,
                args |-> meeting.id], st, pend, js)

schedule_meeting_reminder(meeting, t, st, pend, js) ==
    LET reminder_time == meeting.datetime - ReminderMinutes
    IN IF reminder_time > t
       THEN add_job([id |-> job_id(meeting.id), run_date |-> reminder_time,
                     args |-> meeting.id], st, pend, js)
       ELSE [pending |-> pend, jobs |-> js, raised |-> None]

\* Index of the first pending job with the id, 0 when there is none.
FirstPending(pend, id) ==
    IF \E i \in 1..Len(pend) : pend[i].id = id
    THEN CHOOSE i \in 1..Len(pend) :
            pend[i].id = id /\ \A k \in 1..(i - 1) : pend[k].id # id
    ELSE 0

RemoveAt(s, i) == [k \in 1..(Len(s) - 1) |-> IF k < i THEN s[k] ELSE s[k + 1]]

\* scheduler.remove_job(job_id): the first pending job with the id while the
\* scheduler is stopped, the stored job once it runs; JobLookupError otherwise.
remove_job(id, st, pend, js) ==
    IF st = "stopped"
    THEN IF FirstPending(pend, id) = 0
         THEN [pending |-> pend, jobs |-> js, raised |-> "JobLookupError"]
         ELSE [pending |-> RemoveAt(pend, FirstPending(pend, id)), jobs |-> js,
               raised |-> None]
    ELSE IF id \in JobIds(js)
         THEN [pending |-> pend, jobs |-> {j \in js : j.id # id}, raised |-> None]
         ELSE [pending |-> pend, jobs |-> js, raised |-> "JobLookupError"]

\* cancel_reminder: remove_job inside try / except: pass.
cancel_reminder(meeting_id, st, pend, js) ==
    [remove_job(job_id(meeting_id), st, pend, js) EXCEPT !.raised = None]


\* The jobs start() has not yet moved to the job store plus the stored ones:
\* what scheduler.get_jobs() lists.
Registry == Range(pending_jobs) \cup jobs

\* How many registered jobs carry the id of the meeting (pending entries
\* counted one by one).
JobCount(pend, js, meeting_id) ==
    Cardinality({i \in 1..Len(pend) : pend[i].id = job_id(meeting_id)})
        + Cardinality({j \in js : j.id = job_id(meeting_id)})

NoCall == [op |-> "none", id |-> 0, raised |-> None]

\* A direct call of schedule_meeting_reminder with a meeting dict.
Arm(meeting) ==
    LET r == schedule_meeting_reminder(meeting, now, sched_state, pending_jobs, jobs)
    IN /\ ~gen.active
       /\ Len(r.pending) <= MaxPending
       /\ pending_jobs' = r.pending
       /\ jobs' = r.jobs
       /\ call' = [op |-> "arm", id |-> 0, raised |-> r.raised]
       /\ UNCHANGED <<now, meetings, sched_state, tasks, fired, run, gen, dicts, delivered,
                      procvars>>

\* The caller changes the title of a meeting dict it has scheduled a reminder
\* with (args=[meeting] keeps the dict itself, not a copy).
ChangeMeeting(id) ==
    /\ ~gen.active
    /\ JobCount(pending_jobs, jobs, id) >= 1
    /\ dicts[id] = "original"
    /\ dicts' = [dicts EXCEPT ![id] = "edited"]
    /\ UNCHANGED <<now, meetings, sched_state, pending_jobs, jobs, tasks, fired, call, run, gen, delivered,
                   procvars>>

\* A call of cancel_reminder(meeting_id).
Cancel(id) ==
    LET r == cancel_reminder(id, sched_state, pending_jobs, jobs)
    IN /\ ~gen.active
       /\ pending_jobs' = r.pending
       /\ jobs' = r.jobs
       /\ call' = [op |-> "cancel", id |-> id, raised |-> r.raised]
       /\ UNCHANGED <<now, meetings, sched_state, tasks, fired, run, gen, dicts, delivered,
                      procvars>>

\* The rows of a query as a list, in insertion (id) order.
RECURSIVE RowsInOrder(_)
RowsInOrder(rows) ==
    IF rows = {} THEN <<>>
    ELSE LET first == CHOOSE m \in rows : \A o \in rows : m.id <= o.id
         IN <<first>> \o RowsInOrder(rows \ {first})

\* The query of schedule_all_reminders: MeetingModel.datetime > now.
upcoming_meetings_all(rows, t) == rows

upcoming_meetings(rows, t) == {m \in rows : m.datetime > t}

\* schedule_all_reminders: one asyncio task per upcoming meeting; the task
\* body (schedule_meeting_reminder) runs later, when the loop gets to it.
RearmAll ==
    LET created == RowsInOrder(upcoming_meetings(meetings, now))
    IN /\ ~gen.active
       /\ Len(tasks) + Len(created) <= MaxTasks
       /\ tasks' = tasks \o created
       /\ call' = [op |-> "rearm_all", id |-> 0, raised |-> None]
       /\ UNCHANGED <<now, meetings, sched_state, pending_jobs, jobs, fired, run, gen, dicts, delivered,
                      procvars>>

\* The event loop runs the oldest task: schedule_meeting_reminder(meeting).
\* An exception it raises stays in the task object.
RunTask ==
    /\ ~gen.active
    /\ tasks # <<>>
    /\ LET r == schedule_meeting_reminder(Head(tasks), now, sched_state,
                                          pending_jobs, jobs)
       IN /\ Len(r.pending) <= MaxPending
          /\ pending_jobs' = r.pending
          /\ jobs' = r.jobs
    /\ tasks' = Tail(tasks)
    /\ UNCHANGED <<now, meetings, sched_state, fired, call, run, gen, dicts, delivered,
                   procvars>>

\* scheduler.start(): the pending jobs are really added one by one; the first
\* conflicting id raises out of start(), leaving the scheduler stopped, the
\* pending list as it was and the jobs added so far in the store.
RECURSIVE real_add_pending(_, _)
real_add_pending(pend, js) ==
    IF pend = <<>> THEN [jobs |-> js, raised |-> None]
    ELSE IF Head(pend).id \in JobIds(js)
         THEN [jobs |-> js, raised |-> "ConflictingIdError"]
         ELSE real_add_pending(Tail(pend), js \cup {Head(pend)})

Start ==
    LET r == real_add_pending(pending_jobs, jobs)
    IN /\ ~gen.active
       /\ sched_state = "stopped"
       /\ jobs' = r.jobs
       /\ IF r.raised = None
          THEN sched_state' = "running" /\ pending_jobs' = <<>>
          ELSE UNCHANGED <<sched_state, pending_jobs>>
       /\ call' = [op |-> "start", id |-> 0, raised |-> r.raised]
       /\ UNCHANGED <<now, meetings, tasks, fired, run, gen, dicts, delivered,
                      procvars>>

\* The running scheduler reaches a job's run_date: send_meeting_reminder is
\* called once with the job's args, the meeting dict as it is then, and the
\* date-triggered job is removed.
Fire(j) ==
    /\ ~gen.active
    /\ sched_state = "running"
    /\ j \in jobs
    /\ j.run_date = now
    /\ jobs' = jobs \ {j}
    /\ fired' = [fired EXCEPT ![j.args] = @ + 1]
    /\ delivered' = [delivered EXCEPT ![j.args] = dicts[j.args]]
    /\ UNCHANGED <<now, meetings, sched_state, pending_jobs, tasks, call, run, gen, dicts,
                   procvars>>

\* A job whose run_date had passed before the scheduler was started is
\* dropped as missed (misfire_grace_time) without being run.
Misfire(j) ==
    /\ ~gen.active
    /\ sched_state = "running"
    /\ j \in jobs
    /\ j.run_date < now
    /\ jobs' = jobs \ {j}
    /\ UNCHANGED <<now, meetings, sched_state, pending_jobs, tasks, fired, call, run, gen, dicts, delivered,
                   procvars>>

\* Time passes; a running scheduler handles the jobs that are due first.
Tick ==
    /\ ~gen.active
    /\ now + ReminderMinutes \in Clock
    /\ sched_state = "running" => \A j \in jobs : j.run_date > now
    /\ now' = now + ReminderMinutes
    /\ UNCHANGED <<meetings, sched_state, pending_jobs, jobs, tasks, fired, call, run, gen, dicts, delivered,
                   procvars>>


\* ------------------------------------------------- EmailAgent.process_email

\* What llm.extract_meeting_info can hand to detect_meeting: None (json
\* "null"), or the parsed JSON object, whose title may be absent and whose
\* datetime may be absent ("missing"), text that is no ISO datetime
\* ("unparseable"), or the ISO text of an instant ("iso").
NoInfo == [json |-> "null", title |-> FALSE, datetime |-> "missing", instant |-> 0]

Extractions ==
    {NoInfo}
    \cup [json : {"object"}, title : BOOLEAN, datetime : {"iso"}, instant : Instants]
    \cup [json : {"object"}, title : BOOLEAN, datetime : {"missing", "unparseable"},
          instant : {0}]

Malformed(info) ==
    info.json = "object" /\ (~info.title \/ info.datetime # "iso")

\* meeting_info is None.
NoMeetingInfo == [id |-> 0, datetime |-> 0]

\* A coroutine of process_email: where it is, what it holds, the calls it has
\* made so far in order (steps) and the clock schedule_meeting_reminder read
\* in it (at).
Idle == [pc |-> "idle", category |-> None, extracted |-> NoInfo,
         meeting_info |-> NoMeetingInfo, conflicts |-> {}, suggestions |-> <<>>,
         notified |-> 0, outcome |-> None, raised |-> None, steps |-> <<>>,
         at |-> 0]

\* process_email is entered: the email is saved and llm.classify_email awaited.
ProcessEmailBegin(p) ==
    /\ ~gen.active
    /\ run[p].pc \in {"idle", "done"}
    /\ run' = [run EXCEPT ![p] = [Idle EXCEPT !.pc = "classify"]]
    /\ UNCHANGED <<now, meetings, sched_state, pending_jobs, jobs, tasks, fired, call, gen, dicts, delivered,
                   procvars>>

\* classify_email returns; detect_meeting is entered whatever the category
\* and awaits llm.extract_meeting_info.
ClassifyReturns(p, category) ==
    /\ ~gen.active
    /\ run[p].pc = "classify"
    /\ run' = [run EXCEPT ![p].pc = "extract", ![p].category = category]
    /\ UNCHANGED <<now, meetings, sched_state, pending_jobs, jobs, tasks, fired, call, gen, dicts, delivered,
                   procvars>>

\* detect_meeting after the await, as far as it gets: the exception it raises,
\* or the meeting_info it returns with the row it has committed.
detect_meeting_upsert(info, rows) ==
    IF info.json = "null"
    THEN [meeting_info |-> NoMeetingInfo, rows |-> rows, raised |-> None]
    ELSE IF info.datetime = "missing"
    THEN [meeting_info |-> NoMeetingInfo, rows |-> rows, raised |-> "KeyError"]
    ELSE IF info.datetime = "unparseable"
    THEN [meeting_info |-> NoMeetingInfo, rows |-> rows, raised |-> "ValueError"]
    ELSE IF ~info.title
    THEN [meeting_info |-> NoMeetingInfo, rows |-> rows, raised |-> "KeyError"]
    ELSE LET same == {m \in rows : m.datetime = info.instant}
             meeting == IF same = {}
                        THEN [id |-> Cardinality(rows) + 1, datetime |-> info.instant]
                        ELSE CHOOSE m \in same : TRUE
         IN [meeting_info |-> meeting, rows |-> rows \cup {meeting}, raised |-> None]

detect_meeting_uncommitted(info, rows) ==
    IF info.json = "null"
    THEN [meeting_info |-> NoMeetingInfo, rows |-> rows, raised |-> None]
    ELSE IF info.datetime = "missing"
    THEN [meeting_info |-> NoMeetingInfo, rows |-> rows, raised |-> "KeyError"]
    ELSE IF info.datetime = "unparseable"
    THEN [meeting_info |-> NoMeetingInfo, rows |-> rows, raised |-> "ValueError"]
    ELSE IF ~info.title
    THEN [meeting_info |-> NoMeetingInfo, rows |-> rows, raised |-> "KeyError"]
    ELSE LET meeting == [id |-> Cardinality(rows) + 1, datetime |-> info.instant]
         IN [meeting_info |-> meeting, rows |-> rows, raised |-> None]

detect_meeting_unguarded(info, rows) ==
    IF info.json = "null"
    THEN [meeting_info |-> NoMeetingInfo, rows |-> rows, raised |-> "TypeError"]
    ELSE IF info.datetime = "missing"
    THEN [meeting_info |-> NoMeetingInfo, rows |-> rows, raised |-> "KeyError"]
    ELSE IF info.datetime = "unparseable"
    THEN [meeting_info |-> NoMeetingInfo, rows |-> rows, raised |-> "ValueError"]
    ELSE IF ~info.title
    THEN [meeting_info |-> NoMeetingInfo, rows |-> rows, raised |-> "KeyError"]
    ELSE LET meeting == [id |-> Cardinality(rows) + 1, datetime |-> info.instant]
         IN [meeting_info |-> meeting, rows |-> rows \cup {meeting}, raised |-> None]

detect_meeting(info, rows) ==
    IF info.json = "null"
    THEN [meeting_info |-> NoMeetingInfo, rows |-> rows, raised |-> None]
    ELSE IF info.datetime = "missing"
    THEN [meeting_info |-> NoMeetingInfo, rows |-> rows, raised |-> "KeyError"]
    ELSE IF info.datetime = "unparseable"
    THEN [meeting_info |-> NoMeetingInfo, rows |-> rows, raised |-> "ValueError"]
    ELSE IF ~info.title
    THEN [meeting_info |-> NoMeetingInfo, rows |-> rows, raised |-> "KeyError"]
    ELSE LET meeting == [id |-> Cardinality(rows) + 1, datetime |-> info.instant]
         IN [meeting_info |-> meeting, rows |-> rows \cup {meeting}, raised |-> None]

\* extract_meeting_info returns and process_email runs on without another
\* await: detect_meeting, schedule_meeting_reminder, check_conflicts and,
\* with conflicts, into the loop of generate_alternative_times.
ExtractReturns(p, info) ==
    LET d == detect_meeting(info, meetings)
        r == IF d.meeting_info = NoMeetingInfo
             THEN [pending |-> pending_jobs, jobs |-> jobs, raised |-> None]
             ELSE schedule_meeting_reminder(d.meeting_info, now, sched_state,
                                            pending_jobs, jobs)
        conflicts == IF d.meeting_info = NoMeetingInfo THEN {}
                     ELSE check_conflicts(d.meeting_info.datetime, d.rows)
    IN /\ ~gen.active
       /\ run[p].pc = "extract"
       /\ Cardinality(d.rows) <= MaxMeetings
       /\ Len(r.pending) <= MaxPending
       /\ meetings' = d.rows
       /\ pending_jobs' = r.pending
       /\ jobs' = r.jobs
       /\ IF d.raised # None
          THEN /\ run' = [run EXCEPT ![p].pc = "done", ![p].extracted = info,
                                     ![p].outcome = "Raised", ![p].raised = d.raised,
                                     ![p].steps = <<"detect_meeting">>]
               /\ gen' = gen
          ELSE IF d.meeting_info = NoMeetingInfo
          THEN /\ run' = [run EXCEPT ![p].pc = "done", ![p].extracted = info,
                                     ![p].outcome = "NoMeeting",
                                     ![p].steps = <<"detect_meeting">>]
               /\ gen' = gen
          ELSE IF conflicts = {}
          THEN /\ run' = [run EXCEPT ![p].pc = "done", ![p].extracted = info,
                                     ![p].meeting_info = d.meeting_info,
                                     ![p].outcome = "Scheduled",
                                     ![p].steps = <<"detect_meeting",
                                                    "schedule_meeting_reminder",
                                                    "check_conflicts">>,
                                     ![p].at = now]
               /\ gen' = gen
          ELSE /\ run' = [run EXCEPT ![p].pc = "alternatives", ![p].extracted = info,
                                     ![p].meeting_info = d.meeting_info,
                                     ![p].conflicts = conflicts,
                                     ![p].steps = <<"detect_meeting",
                                                    "schedule_meeting_reminder",
                                                    "check_conflicts",
                                                    "generate_alternative_times">>,
                                     ![p].at = now]
               /\ gen' = [active |-> TRUE, proc |-> p,
                          meeting_time |-> d.meeting_info.datetime,
                          conflicts |-> conflicts,
                          alternative_times |-> <<>>, attempts |-> 0]
       /\ UNCHANGED <<now, sched_state, tasks, fired, call, dicts, delivered,
                      procvars>>

\* A direct call of generate_alternative_times(meeting_time, conflicts).
GenerateAlternativeTimes(meeting_time, conflicts) ==
    /\ ~gen.active
    /\ gen' = [active |-> TRUE, proc |-> 0, meeting_time |-> meeting_time,
               conflicts |-> conflicts, alternative_times |-> <<>>, attempts |-> 0]
    /\ call' = [op |-> "generate_alternative_times", id |-> 0, raised |-> None]
    /\ UNCHANGED <<now, meetings, sched_state, pending_jobs, jobs, tasks, fired, run, dicts, delivered,
                   procvars>>

\* One pass of the while loop with random.randint's draw.
Draw(hours) ==
    /\ gen.active
    /\ looping(gen)
    /\ gen' = draw(gen, hours, meetings)
    /\ UNCHANGED <<now, meetings, sched_state, pending_jobs, jobs, tasks, fired, call, run, dicts, delivered,
                   procvars>>

\* The loop ends and generate_alternative_times returns; in process_email
\* notify_meeting_conflict is called with the result and the run ends.
AlternativesReturn ==
    /\ gen.active
    /\ ~looping(gen)
    /\ gen' = NoGen
    /\ run' = IF gen.proc = 0 THEN run
              ELSE [run EXCEPT ![gen.proc].pc = "done",
                               ![gen.proc].suggestions = gen.alternative_times,
                               ![gen.proc].notified = @ + 1,
                               ![gen.proc].steps = Append(@, "notify_meeting_conflict"),
                               ![gen.proc].outcome = "ScheduledWithConflicts"]
    /\ UNCHANGED <<now, meetings, sched_state, pending_jobs, jobs, tasks, fired, call, dicts, delivered,
                   procvars>>

\* ----------------------------------------------------------------- Database

EmailIds == 1..MaxEmails
Subjects == {"a", "b"}

\* An email as the provider delivers it: its id and its fields, the subject
\* standing for all of them.
Messages == [id : EmailIds, subject : Subjects]

\* Lists of emails: a fetched batch, the argument of Database.sync_emails.
Batches == UNION {[1..n -> Messages] : n \in 0..MaxBatch}

\* The emails table holds no row for the id.
NoRow == [stored |-> FALSE, subject |-> "", last_synced |-> 0]

\* A sync_email that reports every email as new.
sync_email_always_new(email, rows, t) ==
    [rows |-> [rows EXCEPT ![email.id] =
                   [stored |-> TRUE, subject |-> email.subject, last_synced |-> t]],
     is_new |-> TRUE]

\* Database.sync_email at clock t: for an id already stored the fields and
\* last_synced are set on the session's object and the session is closed
\* without a commit, so the committed row stays; a new email is added and
\* committed.
sync_email(email, rows, t) ==
    IF rows[email.id].stored
    THEN [rows |-> rows, is_new |-> FALSE]
    ELSE [rows |-> [rows EXCEPT ![email.id] =
                        [stored |-> TRUE, subject |-> email.subject, last_synced |-> t]],
          is_new |-> TRUE]

\* Database.sync_emails at clock t: every email of the list updates its row
\* or is added, and the session is committed after the loop.
RECURSIVE sync_emails(_, _, _)
sync_emails(list, rows, t) ==
    IF list = <<>> THEN rows
    ELSE LET email_data == Head(list)
             existing == rows[email_data.id]
             row == IF existing.stored
                    THEN [existing EXCEPT !.subject = email_data.subject,
                                          !.last_synced = t]
                    ELSE [stored |-> TRUE, subject |-> email_data.subject,
                          last_synced |-> t]
         IN sync_emails(Tail(list), [rows EXCEPT ![email_data.id] = row], t)

\* A call of Database.sync_email(email).
SyncEmail(email) ==
    /\ ~gen.active
    /\ emails' = sync_email(email, emails, now).rows
    /\ call' = [op |-> "sync_email", id |-> email.id,
                raised |-> IF sync_email(email, emails, now).is_new
                           THEN "True" ELSE "False"]
    /\ UNCHANGED <<now, meetings, sched_state, pending_jobs, jobs, tasks, fired, run, gen,
                   dicts, delivered, running, last_sync, loop, handled>>

\* A call of Database.sync_emails(list).
SyncEmails(list) ==
    /\ ~gen.active
    /\ emails' = sync_emails(list, emails, now)
    /\ call' = [op |-> "sync_emails", id |-> 0, raised |-> None]
    /\ UNCHANGED <<now, meetings, sched_state, pending_jobs, jobs, tasks, fired, run, gen,
                   dicts, delivered, running, last_sync, loop, handled>>

\* ----------------------------------------------------------- EmailProcessor

Starts == {1, 2}

\* self._last_sync = None.
NoSync == -1

\* query = "is:unread" if self._last_sync else None.
Query(last) == IF last = NoSync THEN "none" ELSE "is:unread"

\* A coroutine of start(): where it is, the emails of the fetched batch still
\* to be processed, the id of the email being processed and, while the fetch
\* is awaited, its query.
NoLoop == [pc |-> "idle", batch |-> <<>>, email |-> 0, query |-> "none"]

InSync == {"fetch", "agent", "label"}

\* A sync_emails that sets _last_sync however it ends.
stamped_always(ok, last, t) == t

\* _last_sync when sync_emails ends: set at the end of the try block, left
\* alone when an exception took it to the except clause.
completed(ok, last, t) == IF ok THEN t ELSE last

\* sync_emails returns to start(), which tests self._running: back to sleep,
\* or out of the loop.
end_sync(lp, run_flag) ==
    [lp EXCEPT !.pc = IF run_flag THEN "sleep" ELSE "returned",
               !.batch = <<>>, !.email = 0, !.query = "none"]

\* The emails of the batch from the first one that sync_email reports as new.
RECURSIVE skip_known(_, _, _)
skip_known(batch, rows, t) ==
    IF batch = <<>> THEN <<>>
    ELSE IF sync_email(Head(batch), rows, t).is_new THEN batch
    ELSE skip_known(Tail(batch), rows, t)

\* The for loop of sync_emails from the given rest of the batch up to its next
\* await: process_email skips the emails sync_email does not report as new;
\* the first new one is committed and handed to agent.process_email, which
\* saves it and awaits the classification; with none left _last_sync is set
\* and sync_emails returns.
ProcessFrom(i, batch) ==
    LET rest == skip_known(batch, emails, now)
    IN IF rest = <<>>
       THEN /\ last_sync' = completed(TRUE, last_sync, now)
            /\ loop' = [loop EXCEPT ![i] = end_sync(@, running)]
            /\ UNCHANGED <<emails, handled, run>>
       ELSE /\ emails' = sync_email(Head(rest), emails, now).rows
            /\ handled' = [handled EXCEPT ![Head(rest).id].agent = @ + 1]
            /\ run' = [run EXCEPT ![i] = [Idle EXCEPT !.pc = "classify"]]
            /\ loop' = [loop EXCEPT ![i].pc = "agent", ![i].batch = Tail(rest),
                                    ![i].email = Head(rest).id, ![i].query = "none"]
            /\ UNCHANGED last_sync

\* start() is called: it returns at once when _running is set; otherwise it
\* sets _running and enters the initial sync_emails, which awaits the fetch.
StartCall(i) ==
    /\ ~gen.active
    /\ loop[i].pc \in {"idle", "returned"}
    /\ IF running
       THEN /\ loop' = [loop EXCEPT ![i] = [NoLoop EXCEPT !.pc = "returned"]]
            /\ UNCHANGED running
       ELSE /\ running' = TRUE
            /\ loop' = [loop EXCEPT ![i] = [NoLoop EXCEPT !.pc = "fetch",
                                                          !.query = Query(last_sync)]]
    /\ UNCHANGED <<now, meetings, sched_state, pending_jobs, jobs, tasks, fired, call, run,
                   gen, dicts, delivered, emails, last_sync, handled>>

\* stop() is called.
StopCall ==
    /\ ~gen.active
    /\ running' = FALSE
    /\ UNCHANGED <<now, meetings, sched_state, pending_jobs, jobs, tasks, fired, call, run,
                   gen, dicts, delivered, emails, last_sync, loop, handled>>

\* asyncio.sleep(sync_interval) is over: the loop calls sync_emails, which
\* awaits the fetch.
Wake(i) ==
    /\ ~gen.active
    /\ loop[i].pc = "sleep"
    /\ loop' = [loop EXCEPT ![i].pc = "fetch", ![i].query = Query(last_sync)]
    /\ UNCHANGED <<now, meetings, sched_state, pending_jobs, jobs, tasks, fired, call, run,
                   gen, dicts, delivered, emails, running, last_sync, handled>>

\* provider.fetch_emails returns a batch: with no email sync_emails returns at
\* once, otherwise the emails are processed.
FetchReturns(i, batch) ==
    /\ ~gen.active
    /\ loop[i].pc = "fetch"
    /\ IF batch = <<>>
       THEN /\ loop' = [loop EXCEPT ![i] = end_sync(@, running)]
            /\ UNCHANGED <<emails, handled, run, last_sync>>
       ELSE ProcessFrom(i, batch)
    /\ UNCHANGED <<now, meetings, sched_state, pending_jobs, jobs, tasks, fired, call,
                   gen, dicts, delivered, running>>

\* provider.fetch_emails raises: the except clause logs the error and
\* sync_emails returns.
FetchRaises(i) ==
    /\ ~gen.active
    /\ loop[i].pc = "fetch"
    /\ loop' = [loop EXCEPT ![i] = end_sync(@, running)]
    /\ last_sync' = completed(FALSE, last_sync, now)
    /\ UNCHANGED <<now, meetings, sched_state, pending_jobs, jobs, tasks, fired, call, run,
                   gen, dicts, delivered, emails, running, handled>>

\* agent.process_email is over: with its exception process_email and the for
\* loop are left for the except clause and sync_emails returns; with its
\* category provider.add_label is awaited.
AgentReturns(i) ==
    /\ ~gen.active
    /\ loop[i].pc = "agent"
    /\ run[i].pc = "done"
    /\ IF run[i].raised # None
       THEN /\ loop' = [loop EXCEPT ![i] = end_sync(@, running)]
            /\ last_sync' = completed(FALSE, last_sync, now)
            /\ UNCHANGED handled
       ELSE /\ loop' = [loop EXCEPT ![i].pc = "label"]
            /\ handled' = [handled EXCEPT ![loop[i].email].label = @ + 1]
            /\ UNCHANGED last_sync
    /\ run' = [run EXCEPT ![i] = Idle]
    /\ UNCHANGED <<now, meetings, sched_state, pending_jobs, jobs, tasks, fired, call,
                   gen, dicts, delivered, emails, running>>

\* provider.add_label returns, and the for loop goes on with the next email,
\* or raises, and sync_emails returns through the except clause.
LabelReturns(i, ok) ==
    /\ ~gen.active
    /\ loop[i].pc = "label"
    /\ IF ok
       THEN ProcessFrom(i, loop[i].batch)
       ELSE /\ loop' = [loop EXCEPT ![i] = end_sync(@, running)]
            /\ last_sync' = completed(FALSE, last_sync, now)
            /\ UNCHANGED <<emails, handled, run>>
    /\ UNCHANGED <<now, meetings, sched_state, pending_jobs, jobs, tasks, fired, call,
                   gen, dicts, delivered, running>>

\* ---------------------------------------------------------- specifications

\* The tables a database can hold: ids 1..n, each with a start on the grid.
Stores ==
    UNION {{ {[id |-> i, datetime |-> f[i]] : i \in 1..n} : f \in [1..n -> Instants]}
           : n \in 0..MaxMeetings}

InitCommon ==
    /\ sched_state = "stopped"
    /\ pending_jobs = <<>>
    /\ jobs = {}
    /\ tasks = <<>>
    /\ fired = [id \in MeetingIds |-> 0]
    /\ call = NoCall
    /\ run = [p \in Procs |-> Idle]
    /\ gen = NoGen
    /\ dicts = [id \in MeetingIds |-> "original"]
    /\ delivered = [id \in MeetingIds |-> None]
    /\ emails = [id \in EmailIds |-> NoRow]
    /\ running = FALSE
    /\ last_sync = NoSync
    /\ loop = [i \in Starts |-> NoLoop]
    /\ handled = [id \in EmailIds |-> [agent |-> 0, label |-> 0]]

\* The agent on an empty database: emails are processed one after another
\* (the loop of EmailProcessor.sync_emails) while time passes.
Init == InitCommon /\ now = 0 /\ meetings = {}

Next ==
    \/ ProcessEmailBegin(1)
    \/ \E c \in Categories : ClassifyReturns(1, c)
    \/ \E info \in Extractions : ExtractReturns(1, info)
    \/ \E h \in Hours : Draw(h)
    \/ AlternativesReturn
    \/ Start
    \/ \E j \in jobs : Fire(j)
    \/ \E j \in jobs : Misfire(j)
    \/ Tick

Spec == Init /\ [][Next]_vars

\* The same agent with what its scheduling guarantees: time passes, the
\* synchronous loop of generate_alternative_times runs on to its return, and
\* a running scheduler handles the jobs that are due.  Nothing in the program
\* calls NotificationSystem.start(), so Start comes with no guarantee.
SpecLive ==
    /\ Init /\ [][Next]_vars
    /\ WF_vars(Tick)
    /\ WF_vars(\E h \in Hours : Draw(h))
    /\ WF_vars(AlternativesReturn)
    /\ WF_vars(\E j \in jobs : Fire(j))
    /\ WF_vars(\E j \in jobs : Misfire(j))

\* The reminder scheduler over a stored set of meetings: reminders are
\* scheduled and cancelled for them while time passes.
InitSched == InitCommon /\ now = 0 /\ meetings \in Stores

NextSched ==
    \/ \E m \in meetings : Arm(m)
    \/ \E id \in MeetingIds : Cancel(id)
    \/ Start
    \/ \E j \in jobs : Fire(j)
    \/ \E j \in jobs : Misfire(j)
    \/ Tick

SpecSched == InitSched /\ [][NextSched]_vars

\* The reminder scheduler with every mutation of the registry: reminders are
\* scheduled and cancelled and schedule_all_reminders is called at any time,
\* its tasks running when the event loop gets to them.
NextRace ==
    \/ \E m \in meetings : Arm(m)
    \/ \E id \in MeetingIds : Cancel(id)
    \/ RearmAll
    \/ RunTask
    \/ Start
    \/ \E j \in jobs : Fire(j)
    \/ \E j \in jobs : Misfire(j)
    \/ Tick

SpecRace == InitSched /\ [][NextRace]_vars

\* The reminder scheduler and a caller that schedules reminders with its
\* meeting dicts and changes a dict only after it has scheduled with it.
NextPayload ==
    \/ \E m \in meetings : dicts[m.id] = "original" /\ Arm(m)
    \/ \E id \in MeetingIds : ChangeMeeting(id)
    \/ Start
    \/ \E j \in jobs : Fire(j)
    \/ \E j \in jobs : Misfire(j)
    \/ Tick

SpecPayload == InitSched /\ [][NextPayload]_vars

\* Two process_email coroutines of one agent on one event loop, each handling
\* one email: they interleave at the awaits of the language model, within one
\* reading of the clock.
NextPair ==
    \/ \E p \in Procs : run[p].pc = "idle" /\ ProcessEmailBegin(p)
    \/ \E p \in Procs : \E c \in Categories : ClassifyReturns(p, c)
    \/ \E p \in Procs : \E info \in Extractions : ExtractReturns(p, info)
    \/ \E h \in Hours : Draw(h)
    \/ AlternativesReturn

SpecPair == Init /\ [][NextPair]_vars

\* The emails of the provider's inbox and the batches a fetch can return, the
\* same email any number of times.
Inbox == {m \in Messages : m.subject = "a"}
Fetches == UNION {[1..n -> Inbox] : n \in 0..MaxBatch}

\* The answers of the language model to the emails of the inbox: no meeting,
\* with which agent.process_email returns the category, or a meeting whose
\* datetime does not parse, with which it raises.
InboxExtractions ==
    {NoInfo,
     [json |-> "object", title |-> TRUE, datetime |-> "unparseable", instant |-> 0]}

\* The EmailProcessor with its agent: start() and stop() are called at any
\* time, the provider delivers any batch of its inbox, the same email again
\* included, or fails.
NextProc ==
    \/ \E i \in Starts : StartCall(i)
    \/ StopCall
    \/ \E i \in Starts : Wake(i)
    \/ \E i \in Starts : \E batch \in Fetches : FetchReturns(i, batch)
    \/ \E i \in Starts : FetchRaises(i)
    \/ \E i \in Starts : \E c \in Categories : ClassifyReturns(i, c)
    \/ \E i \in Starts : \E info \in InboxExtractions : ExtractReturns(i, info)
    \/ \E i \in Starts : AgentReturns(i)
    \/ \E i \in Starts : \E ok \in BOOLEAN : LabelReturns(i, ok)

SpecProc == Init /\ [][NextProc]_vars

\* One start() of the EmailProcessor while time passes.
NextSync ==
    \/ StartCall(1)
    \/ StopCall
    \/ Wake(1)
    \/ \E batch \in Fetches : FetchReturns(1, batch)
    \/ FetchRaises(1)
    \/ \E c \in Categories : ClassifyReturns(1, c)
    \/ \E info \in InboxExtractions : ExtractReturns(1, info)
    \/ AgentReturns(1)
    \/ \E ok \in BOOLEAN : LabelReturns(1, ok)
    \/ Tick

SpecSync == Init /\ [][NextSync]_vars

\* The emails table under calls of sync_email and sync_emails while time
\* passes.
NextDb ==
    \/ \E email \in Messages : SyncEmail(email)
    \/ \E list \in Batches : SyncEmails(list)
    \/ Tick

SpecDb == Init /\ [][NextDb]_vars

\* generate_alternative_times called on a stored set of meetings.
InitAlt == InitCommon /\ now = 0 /\ meetings \in Stores

NextAlt ==
    \/ \E t \in Instants, cs \in SUBSET meetings : GenerateAlternativeTimes(t, cs)
    \/ \E h \in Hours : Draw(h)
    \/ AlternativesReturn

SpecAlt == InitAlt /\ [][NextAlt]_vars

\* generate_alternative_times called as process_email calls it, with the
\* result of check_conflicts, or with no conflicts, and with the synchronous
\* loop running on: each pass follows the one before and the function
\* returns when the while condition fails.
NextAltLive ==
    \/ \E t \in Instants : \E cs \in {{}, check_conflicts(t, meetings)} :
          GenerateAlternativeTimes(t, cs)
    \/ \E h \in Hours : Draw(h)
    \/ AlternativesReturn

SpecAltLive ==
    /\ InitAlt /\ [][NextAltLive]_vars
    /\ WF_vars(\E h \in Hours : Draw(h))
    /\ WF_vars(AlternativesReturn)

\* Startup recovery: schedule_all_reminders is called on a scheduler with
\* no job, started before or after, and the loop runs the tasks.
InitRearm == InitCommon /\ now \in Clock /\ meetings \in Stores

Startup ==
    /\ Range(pending_jobs) \cup jobs = {}
    /\ tasks = <<>>
    /\ RearmAll

NextRearm ==
    \/ Startup
    \/ RunTask
    \/ Start

SpecRearm == InitRearm /\ [][NextRearm]_vars


\* ------------------------------------------------------------------ claims

\* The runs of process_email whose extraction succeeded and whose conflict
\* check is over.
Resolved(p) ==
    /\ run[p].pc \in {"alternatives", "done"}
    /\ run[p].meeting_info # NoMeetingInfo

\* The stored meetings other than the one the run has just created.
OtherMeetings(p) == {m \in meetings : m.id # run[p].meeting_info.id}

\* C1: when extraction succeeds and no other stored meeting starts within 30
\* minutes of the new meeting's start, process_email finds no conflict, ends
\* Scheduled and sends no conflict notification.
C1_NoOtherMeetingScheduled ==
    \A p \in Procs :
        (/\ Resolved(p)
         /\ \A m \in OtherMeetings(p) :
               \/ m.datetime < run[p].meeting_info.datetime - WindowMinutes
               \/ m.datetime > run[p].meeting_info.datetime + WindowMinutes)
        => /\ run[p].conflicts = {}
           /\ run[p].pc = "done"
           /\ run[p].outcome = "Scheduled"
           /\ run[p].notified = 0

\* C2: a stored meeting M with start t is among the conflicts of a candidate
\* instant x exactly when t - 30 min <= x <= t + 30 min, both ends included;
\* this holds of every candidate instant and of the conflicts process_email
\* has computed for its new meeting.
C2_ConflictWindowInclusive ==
    /\ \A x \in Instants : \A m \in meetings :
          m \in check_conflicts(x, meetings)
              <=> (m.datetime - WindowMinutes <= x /\ x <= m.datetime + WindowMinutes)
    /\ \A p \in Procs : Resolved(p) =>
          \A m \in meetings :
              m \in run[p].conflicts
                  <=> (/\ m.datetime - WindowMinutes <= run[p].meeting_info.datetime
                       /\ run[p].meeting_info.datetime <= m.datetime + WindowMinutes)

\* A run whose conflicts hold a stored meeting that starts exactly 30
\* minutes after the new meeting.
C2_Witness ==
    \E p \in Procs :
        /\ Resolved(p)
        /\ \E m \in run[p].conflicts :
              m.datetime = run[p].meeting_info.datetime + WindowMinutes

\* C3: no instant generate_alternative_times returns lies in the inclusive
\* window [c - 30 min, c + 30 min] of a meeting c of the supplied conflict
\* set: check_conflicts of the instant against {c} is empty.
C3_AlternativesOutsideInclusiveWindow ==
    gen.active =>
        \A i \in 1..Len(gen.alternative_times) : \A c \in gen.conflicts :
            check_conflicts(gen.alternative_times[i], {c}) = {}

\* C4: no instant generate_alternative_times has accepted is the start of a
\* meeting in the store, with or without supplied conflicts.
C4_NoDuplicateBooking ==
    gen.active =>
        \A i \in 1..Len(gen.alternative_times) : \A m \in meetings :
            m.datetime # gen.alternative_times[i]

\* A call without conflicts that has accepted an instant and has rejected a
\* draw, which only the stored-meeting query can have done.
C4_Witness ==
    /\ gen.active
    /\ gen.conflicts = {}
    /\ Len(gen.alternative_times) >= 1
    /\ gen.attempts > Len(gen.alternative_times)
    /\ \E m \in meetings, h \in Hours :
          m.datetime = gen.meeting_time + h * MinutesPerHour


\* C5: after two calls in a row of schedule_meeting_reminder for the same
\* meeting id the registry holds exactly one job reminder_<id>; no state has
\* two jobs registered for one meeting id and no reminder fires twice.
C5_OneJobPerMeeting ==
    \A id \in MeetingIds :
        /\ JobCount(pending_jobs, jobs, id) <= 1
        /\ fired[id] <= 1

\* C6: a call of schedule_meeting_reminder for a meeting id that already has
\* a job, with the fire instant in the future, completes without error and
\* leaves exactly one job for the id, the newly registered one.
C6_RearmSupersedes ==
    [][\A m \in meetings :
          (/\ Arm(m)
           /\ JobCount(pending_jobs, jobs, m.id) >= 1
           /\ m.datetime - ReminderMinutes > now)
          => /\ call'.raised = None
             /\ JobCount(pending_jobs', jobs', m.id) = 1
             /\ \A j \in Range(pending_jobs') \cup jobs' :
                   j.id = job_id(m.id) => j.run_date = m.datetime - ReminderMinutes]_vars

\* C7: schedule_meeting_reminder registers a job only when the fire instant
\* (start minus 15 minutes) is strictly later than the clock at the call;
\* with the fire instant at or before now it raises nothing and leaves the
\* registry and the fired reminders as they are, and a reminder fires only
\* from a job that is in the job store and due.
C7_PastDueDropped ==
    [][/\ \A m \in meetings :
             (Arm(m) /\ m.datetime - ReminderMinutes <= now)
             => /\ call'.raised = None
                /\ UNCHANGED <<pending_jobs, jobs, fired>>
       /\ \A m \in meetings :
             (/\ Arm(m)
              /\ JobCount(pending_jobs', jobs', m.id)
                    > JobCount(pending_jobs, jobs, m.id))
             => m.datetime - ReminderMinutes > now
       /\ \A id \in MeetingIds :
             fired'[id] > fired[id]
             => \E j \in jobs : j.id = job_id(id) /\ j.run_date <= now /\ j \notin jobs'
      ]_vars

\* schedule_meeting_reminder has just been called on the running scheduler
\* when the fire instant of every stored meeting is exactly now, and no
\* meeting has a job or has fired.
C7_Witness ==
    /\ call.op = "arm"
    /\ sched_state = "running"
    /\ \A m \in meetings :
          /\ m.datetime - ReminderMinutes = now
          /\ JobCount(pending_jobs, jobs, m.id) = 0
          /\ fired[m.id] = 0
    /\ meetings # {}

\* The pending jobs of the ids other than id, in order.
OtherPending(pend, id) == SelectSeq(pend, LAMBDA j : j.id # job_id(id))

\* C8: cancel_reminder never raises; for an id without a job it leaves the
\* registry as it is; for an id with a job it leaves the jobs of every other
\* id as they are and no job of the cancelled id registered, so that none can
\* fire.
C8_CancelRemovesJob ==
    [][\A id \in MeetingIds :
          Cancel(id)
          => /\ call'.raised = None
             /\ OtherPending(pending_jobs', id) = OtherPending(pending_jobs, id)
             /\ {j \in jobs' : j.id # job_id(id)} = {j \in jobs : j.id # job_id(id)}
             /\ JobCount(pending_jobs, jobs, id) = 0
                   => UNCHANGED <<pending_jobs, jobs>>
             /\ JobCount(pending_jobs', jobs', id) = 0]_vars

\* schedule_all_reminders has returned and every task it created has run.
RearmDone == call.op = "rearm_all" /\ tasks = <<>>

\* C9: starting from an empty registry, schedule_all_reminders arms as many
\* jobs as there are stored meetings whose start is in the future.
C9_JobPerFutureMeeting ==
    RearmDone =>
        /\ JobIds(Registry)
              = {job_id(m.id) : m \in {r \in meetings : r.datetime > now}}
        /\ \A id \in MeetingIds : JobCount(pending_jobs, jobs, id) <= 1

\* C9 as amended: schedule_all_reminders creates an arming task for every
\* stored meeting whose start is in the future and for no other; starting
\* from an empty registry, once these tasks have run the jobs registered are
\* those of the meetings whose start minus 15 minutes is strictly later than
\* now, one each.
C9_JobPerMeetingWithFutureReminder ==
    /\ call.op = "rearm_all" =>
          \A i \in 1..Len(tasks) :
              tasks[i] \in meetings /\ tasks[i].datetime > now
    /\ RearmDone =>
          /\ JobIds(Registry)
                = {job_id(m.id) :
                      m \in {r \in meetings : r.datetime - ReminderMinutes > now}}
          /\ \A id \in MeetingIds : JobCount(pending_jobs, jobs, id) <= 1

\* Recovery is complete with a past meeting and a meeting more than 15
\* minutes ahead in the store: one job.
C9_Witness ==
    /\ RearmDone
    /\ \E m \in meetings : m.datetime <= now
    /\ \E m \in meetings : m.datetime - ReminderMinutes > now
    /\ Cardinality(JobIds(Registry)) = 1

\* C10: a malformed extraction result (title or datetime missing, datetime
\* text unparseable) does not raise out of process_email: the run ends
\* normally as NoMeeting.
C10_MalformedIsNoMeeting ==
    \A p \in Procs :
        (run[p].pc = "done" /\ Malformed(run[p].extracted))
        => /\ run[p].raised = None
           /\ run[p].outcome = "NoMeeting"


\* The calls process_email makes follow one another in the order given.
Before(steps, first, second) ==
    \A i \in 1..Len(steps) :
        steps[i] = second => \E k \in 1..(i - 1) : steps[k] = first

\* C11: within one run of process_email the steps happen in the order
\* extraction (detect_meeting), conflict check (check_conflicts), scheduling
\* (schedule_meeting_reminder): the reminder job of a meeting is armed only
\* after the conflict check for the meeting has completed.
C11_ArmAfterConflictCheck ==
    \A p \in Procs :
        /\ Before(run[p].steps, "detect_meeting", "check_conflicts")
        /\ Before(run[p].steps, "check_conflicts", "schedule_meeting_reminder")


\* A registered job of the meeting has reached its fire instant.
Due(id) == \E j \in Registry : j.args = id /\ j.run_date <= now

\* C12: a reminder job armed by process_email, neither cancelled nor
\* superseded, fires once its fire instant is reached (send_meeting_reminder
\* is called for the meeting), and having fired never fires again.
C12_ArmedJobFires ==
    /\ \A id \in MeetingIds : Due(id) ~> (fired[id] >= 1)
    /\ [](\A id \in MeetingIds : fired[id] <= 1)


\* C13: once cancel_reminder(meeting_id) has returned, and as long as neither
\* schedule_meeting_reminder nor schedule_all_reminders is called after it, no
\* job of that meeting is registered, so none fires; this under every
\* interleaving of the three, a schedule_all_reminders that returned before
\* the cancel included.
C13_NoLostCancel ==
    call.op = "cancel" => JobCount(pending_jobs, jobs, call.id) = 0


\* C14: when the conflicts of a newly extracted meeting are not empty,
\* process_email still registers the reminder job of the meeting (when its
\* fire instant is in the future), computes the alternatives from these
\* conflicts and sends exactly one conflict notification, with the new
\* meeting, these conflicts and these alternatives; the run ends as
\* ScheduledWithConflicts.
C14_ConflictStillScheduled ==
    /\ [][\A info \in Extractions :
              (ExtractReturns(1, info) /\ run'[1].conflicts # {})
              => LET m == run'[1].meeting_info
                 IN /\ m \in meetings'
                    /\ m.datetime - ReminderMinutes > now
                          => /\ JobCount(pending_jobs', jobs', m.id) = 1
                             /\ \E j \in Range(pending_jobs') \cup jobs' :
                                   /\ j.id = job_id(m.id)
                                   /\ j.run_date = m.datetime - ReminderMinutes
                    /\ run'[1].pc = "alternatives"
                    /\ run'[1].notified = 0
                    /\ gen'.active /\ gen'.proc = 1
                    /\ gen'.meeting_time = m.datetime
                    /\ gen'.conflicts = run'[1].conflicts]_vars
    /\ [][(AlternativesReturn /\ gen.proc = 1)
              => /\ run'[1].notified = 1
                 /\ run'[1].meeting_info = run[1].meeting_info
                 /\ run'[1].conflicts = gen.conflicts
                 /\ run'[1].suggestions = gen.alternative_times
                 /\ run'[1].outcome = "ScheduledWithConflicts"
                 /\ run'[1].raised = None]_vars
    /\ [](\A p \in Procs :
              /\ (run[p].pc = "alternatives")
                    => (gen.active /\ gen.proc = p /\ gen.conflicts = run[p].conflicts)
              /\ (run[p].pc = "done" /\ run[p].conflicts # {})
                    => /\ run[p].outcome = "ScheduledWithConflicts"
                       /\ run[p].notified = 1)

\* A run has ended with a conflicting meeting other than its own in the
\* conflicts, the notification sent with an alternative, and the reminder
\* job of its meeting, whose fire instant was ahead, registered.
C14_Witness ==
    \E p \in Procs :
        /\ run[p].pc = "done"
        /\ \E c \in run[p].conflicts : c.id # run[p].meeting_info.id
        /\ run[p].notified = 1
        /\ Len(run[p].suggestions) >= 1
        /\ run[p].meeting_info.datetime - ReminderMinutes > run[p].at
        /\ JobCount(pending_jobs, jobs, run[p].meeting_info.id) = 1


\* The extraction results detect_meeting accepts: an object with a title and
\* an ISO datetime.
WellFormed(info) == info.json = "object" /\ info.title /\ info.datetime = "iso"

\* C15: when extraction succeeds for a meeting whose start is already in the
\* past, process_email registers no reminder job for it, yet stores the
\* meeting, performs the conflict check and ends as Scheduled or
\* ScheduledWithConflicts, not as NoMeeting and not with an error.
C15_PastMeetingStoredNotArmed ==
    /\ [][\A info \in Extractions :
              (ExtractReturns(1, info) /\ WellFormed(info) /\ info.instant < now)
              => /\ UNCHANGED <<pending_jobs, jobs>>
                 /\ \E m \in meetings' \ meetings :
                       /\ m.datetime = info.instant
                       /\ run'[1].meeting_info = m
                       /\ JobCount(pending_jobs', jobs', m.id) = 0
                 /\ \E i \in 1..Len(run'[1].steps) :
                       run'[1].steps[i] = "check_conflicts"
                 /\ run'[1].conflicts = check_conflicts(info.instant, meetings')
                 /\ run'[1].raised = None
                 /\ \/ run'[1].pc = "done" /\ run'[1].outcome = "Scheduled"
                    \/ run'[1].pc = "alternatives"]_vars
    /\ [](\A p \in Procs :
              (run[p].pc = "done" /\ run[p].meeting_info # NoMeetingInfo)
              => /\ run[p].outcome \in {"Scheduled", "ScheduledWithConflicts"}
                 /\ run[p].raised = None)

\* A run has ended for a meeting that had started before the run resolved
\* it: the meeting is stored and has no job.
C15_Witness ==
    \E p \in Procs :
        /\ run[p].pc = "done"
        /\ run[p].meeting_info \in meetings
        /\ run[p].meeting_info.datetime < run[p].at
        /\ run[p].outcome \in {"Scheduled", "ScheduledWithConflicts"}
        /\ JobCount(pending_jobs, jobs, run[p].meeting_info.id) = 0
        /\ fired[run[p].meeting_info.id] = 0


\* C16: when extract_meeting_info returns nothing, detect_meeting returns
\* nothing and raises nothing, and process_email leaves the meetings table
\* and the scheduler's jobs as they are: no meeting saved, no job registered,
\* no conflict notification; the run ends as NoMeeting.
C16_NoMeetingChangesNothing ==
    /\ [](detect_meeting(NoInfo, meetings)
              = [meeting_info |-> NoMeetingInfo, rows |-> meetings, raised |-> None])
    /\ [][ExtractReturns(1, NoInfo)
              => /\ UNCHANGED <<meetings, pending_jobs, jobs, gen>>
                 /\ run'[1].pc = "done"
                 /\ run'[1].outcome = "NoMeeting"
                 /\ run'[1].raised = None
                 /\ run'[1].meeting_info = NoMeetingInfo
                 /\ run'[1].conflicts = {}
                 /\ run'[1].notified = 0]_vars

\* A run has ended as NoMeeting on a null extraction while the table holds a
\* meeting and the scheduler a job.
C16_Witness ==
    \E p \in Procs :
        /\ run[p].pc = "done"
        /\ run[p].extracted = NoInfo
        /\ run[p].outcome = "NoMeeting"
        /\ meetings # {}
        /\ Registry # {}


\* C17: generate_alternative_times always returns, after at most 10 draws
\* and with at most 3 instants; a draw is made only while fewer than 3
\* instants are accepted and fewer than 10 draws are made, and the function
\* returns, without raising, as soon as one of the two limits is reached,
\* with however many instants it has, none included.
C17_AlternativesTerminate ==
    /\ [](/\ gen.attempts <= MaxAttempts
          /\ Len(gen.alternative_times) <= MaxResults
          /\ Len(gen.alternative_times) <= gen.attempts)
    /\ [][(\E h \in Hours : Draw(h))
              => /\ Len(gen.alternative_times) < MaxResults
                 /\ gen.attempts < MaxAttempts
                 /\ gen'.attempts = gen.attempts + 1
                 /\ Len(gen'.alternative_times) \in
                       {Len(gen.alternative_times), Len(gen.alternative_times) + 1}]_vars
    /\ [][AlternativesReturn
              => /\ \/ Len(gen.alternative_times) = MaxResults
                    \/ gen.attempts = MaxAttempts
                 /\ call'.raised = None
                 /\ \A p \in Procs : run'[p].raised = None]_vars
    /\ [](gen.active =>
              \/ ENABLED (\E h \in Hours : Draw(h))
              \/ ENABLED AlternativesReturn)
    /\ (gen.active ~> ~gen.active)

\* The loop has made its 10 draws and accepted none: the function is about
\* to return the empty list.
C17_Witness ==
    /\ gen.active
    /\ gen.attempts = MaxAttempts
    /\ gen.alternative_times = <<>>
    /\ ~looping(gen)


\* C18: every registered reminder job belongs to a meeting, fires exactly 15
\* minutes before the start of that meeting and has the id
\* reminder_<meeting id>.
C18_JobFiresQuarterHourBefore ==
    \A j \in Registry :
        \E m \in meetings :
            /\ j.args = m.id
            /\ j.id = <<"reminder_", m.id>>
            /\ j.run_date = m.datetime - 15

\* A job is registered for a meeting that starts 30 minutes after the
\* initial instant: it is due at minute 15.
C18_Witness ==
    \E m \in meetings : \E j \in Registry :
        /\ m.datetime = 30
        /\ j.args = m.id
        /\ j.run_date = 15


\* C19: what send_meeting_reminder receives when a job fires is the meeting
\* as it was when schedule_meeting_reminder was called: a change the caller
\* makes to the meeting dict after the call does not reach the reminder.
\* (Every job is scheduled with the dict as it originally is.)
C19_PayloadIsSnapshot ==
    \A id \in MeetingIds : delivered[id] \in {None, "original"}


\* C20: the conflict relation is symmetric: for stored meetings A and B,
\* check_conflicts at A's start returns B exactly when check_conflicts at B's
\* start returns A, and both exactly when the two starts are at most 30
\* minutes apart.
C20_ConflictSymmetric ==
    \A a \in meetings : \A b \in meetings :
        /\ b \in check_conflicts(a.datetime, meetings)
              <=> a \in check_conflicts(b.datetime, meetings)
        /\ b \in check_conflicts(a.datetime, meetings)
              <=> (a.datetime - b.datetime <= 30 /\ b.datetime - a.datetime <= 30)

\* process_email has checked the conflicts of a new meeting that starts
\* exactly 30 minutes before a stored one and found it, while the table can
\* also hold meetings further apart.
C20_Witness ==
    \E p \in Procs :
        /\ Resolved(p)
        /\ \E b \in meetings :
              /\ b.datetime = run[p].meeting_info.datetime + 30
              /\ b \in run[p].conflicts
              /\ run[p].meeting_info \in check_conflicts(b.datetime, meetings)


\* C21: detect_meeting never updates a stored meeting: each successful
\* extraction, a repeated one from the same message included, adds exactly one
\* meeting, under an id no stored meeting has, leaves the stored meetings as
\* they are, and has committed the new meeting when it returns it.
C21_ExtractionAddsOneMeeting ==
    /\ [](\A info \in Extractions : WellFormed(info) =>
              LET d == detect_meeting(info, meetings)
              IN /\ d.raised = None
                 /\ d.meeting_info.datetime = info.instant
                 /\ d.meeting_info.id \notin {m.id : m \in meetings}
                 /\ d.rows = meetings \cup {d.meeting_info}
                 /\ Cardinality(d.rows) = Cardinality(meetings) + 1)
    /\ [][\A info \in Extractions :
              (ExtractReturns(1, info) /\ WellFormed(info))
              => /\ meetings \subseteq meetings'
                 /\ Cardinality(meetings') = Cardinality(meetings) + 1
                 /\ run'[1].meeting_info \in meetings' \ meetings
                 /\ run'[1].meeting_info.id \notin {m.id : m \in meetings}]_vars
    /\ [](\A a \in meetings : \A b \in meetings : a.id = b.id => a = b)

\* Two extractions of the same start have been stored as two meetings.
C21_Witness ==
    \E a \in meetings : \E b \in meetings :
        a.id # b.id /\ a.datetime = b.datetime /\ run[1].meeting_info = b


\* C22: extraction is gated by classification: for a message classified as
\* anything but the meeting category, process_email stores no meeting and arms
\* no reminder job, and ends with no meeting resolved.
C22_ExtractionGatedByCategory ==
    [][\A info \in Extractions :
          (ExtractReturns(1, info) /\ run[1].category # "Meetings")
          => /\ UNCHANGED <<meetings, pending_jobs, jobs>>
             /\ run'[1].meeting_info = NoMeetingInfo]_vars


\* C23: every instant generate_alternative_times has accepted is free of
\* conflicts with respect to all stored meetings, not only the supplied
\* conflicts: check_conflicts of the instant against the store is empty.
C23_AlternativesFreeOfStoredConflicts ==
    gen.active =>
        \A i \in 1..Len(gen.alternative_times) :
            check_conflicts(gen.alternative_times[i], meetings) = {}


\* C29: the instants one call of generate_alternative_times has accepted are
\* pairwise distinct: no instant appears twice in alternative_times.
C29_AlternativesPairwiseDistinct ==
    gen.active =>
        \A i \in 1..Len(gen.alternative_times) :
            \A j \in 1..Len(gen.alternative_times) :
                gen.alternative_times[i] = gen.alternative_times[j] => i = j


\* C24: of two concurrent process_email runs whose extracted meetings start
\* within 30 minutes of each other, at least one has the other run's meeting
\* among its conflicts, whatever the interleaving: both never miss each other.
C24_OneRunSeesTheOther ==
    (/\ Resolved(1)
     /\ Resolved(2)
     /\ run[1].meeting_info.datetime - run[2].meeting_info.datetime <= WindowMinutes
     /\ run[2].meeting_info.datetime - run[1].meeting_info.datetime <= WindowMinutes)
    => \/ run[2].meeting_info \in run[1].conflicts
       \/ run[1].meeting_info \in run[2].conflicts

\* Both runs have stored their meetings half an hour apart, the second run was
\* the first to extract, and only the first run has the other's meeting among
\* its conflicts.
C24_Witness ==
    /\ Resolved(1)
    /\ Resolved(2)
    /\ run[1].meeting_info.datetime - run[2].meeting_info.datetime = WindowMinutes
    /\ run[2].meeting_info \in run[1].conflicts
    /\ run[1].meeting_info \notin run[2].conflicts
    /\ {run[1].meeting_info, run[2].meeting_info} \subseteq meetings


\* C25: however often the provider delivers the same email id, the
\* EmailProcessor hands the id to the agent at most once and labels it at most
\* once: the agent is called only for an id sync_email has just reported as
\* new, and the label is added only after that one call of the agent.
C25_EachEmailHandledOnce ==
    /\ [](\A id \in EmailIds : handled[id].agent <= 1 /\ handled[id].label <= 1)
    /\ [][\A id \in EmailIds :
              /\ handled'[id].agent # handled[id].agent
                 => /\ ~emails[id].stored
                    /\ emails'[id].stored
                    /\ handled'[id].agent = 1
              /\ handled'[id].label # handled[id].label
                 => /\ handled[id].agent = 1
                    /\ handled'[id].label = 1]_vars

\* An email has been handed to the agent and labelled, and the batch being
\* processed delivers the same id once more.
C25_Witness ==
    \E i \in Starts :
        /\ loop[i].pc = "label"
        /\ handled[loop[i].email] = [agent |-> 1, label |-> 1]
        /\ \E k \in 1..Len(loop[i].batch) : loop[i].batch[k].id = loop[i].email

\* C26: sync_emails never lets an exception out: when the fetch, the agent or
\* add_label raises, the sync ends there, the rest of the batch is not
\* processed and _last_sync keeps its value; _last_sync is set, to the clock,
\* only when a non-empty batch has been processed to its end, and the next
\* fetch is issued with the query of the _last_sync it finds.
C26_LastSyncOnlyAfterCompleteSync ==
    /\ [][(\/ FetchRaises(1)
           \/ (AgentReturns(1) /\ run[1].raised # None)
           \/ LabelReturns(1, FALSE))
          => /\ loop'[1].pc \in {"sleep", "returned"}
             /\ loop'[1].batch = <<>>
             /\ UNCHANGED <<last_sync, emails, handled>>]_vars
    /\ [][FetchReturns(1, <<>>) => UNCHANGED <<last_sync, emails, handled>>]_vars
    /\ [][last_sync' # last_sync
          => /\ last_sync' = now
             /\ loop'[1].pc \in {"sleep", "returned"}
             /\ \/ \E batch \in Fetches : batch # <<>> /\ FetchReturns(1, batch)
                \/ LabelReturns(1, TRUE)]_vars
    /\ [](loop[1].pc = "fetch" => loop[1].query = Query(last_sync))

\* A sync that stored the second email has set _last_sync; a later sync has
\* handed the first email to the agent, which raised, and _last_sync still has
\* the value of the earlier sync.
C26_Witness ==
    /\ loop[1].pc = "sleep"
    /\ last_sync # NoSync
    /\ last_sync < now
    /\ handled[2] = [agent |-> 1, label |-> 1]
    /\ handled[1] = [agent |-> 1, label |-> 0]
    /\ emails[2].last_synced = last_sync
    /\ emails[1].last_synced > last_sync


\* C27: once stop() has returned the loop of start() begins no further
\* sync_emails: a fetch is issued after the sleep only while _running is set.
C27_NoSyncAfterStop ==
    [][Wake(1) => running]_vars

\* C28: whatever the order of the start() and stop() calls, two loops of
\* start() are never both inside sync_emails.
C28_AtMostOneLoopSyncing ==
    ~(loop[1].pc \in InSync /\ loop[2].pc \in InSync)


\* C30: Database.sync_email(e) and Database.sync_emails([e]) leave the same
\* committed rows when started on the same store, for an id that is new and
\* for an id already stored, and sync_email returns True exactly for the new id.
C30_SyncEmailEqualsSyncEmailsOfOne ==
    \A e \in Messages :
        /\ sync_email(e, emails, now).rows = sync_emails(<<e>>, emails, now)
        /\ sync_email(e, emails, now).is_new <=> ~emails[e.id].stored

====
